---------------------------- MODULE Spec2Model ----------------------------
(***************************************************************************)
(* LaTeX to Typst converter: the rule registry (rules.py), the            *)
(* transformation loop transform() and the file driver process_file() /   *)
(* main() (main.py).  Text is a sequence of one-character strings.        *)
(***************************************************************************)
EXTENDS Integers, Sequences, FiniteSets, TLC

VARIABLES input, verbose, text, new_text, n, i, pc, out, result,
          args, fs, tex_files, pos, console, exit_code, fpc

vars == <<input, verbose, text, new_text, n, i, pc, out, result,
          args, fs, tex_files, pos, console, exit_code, fpc>>

tvars == <<input, verbose, text, new_text, n, i, pc, out, result>>
fvars == <<args, fs, tex_files, pos, console, exit_code, fpc>>

(***************************************************************************)
(* Characters                                                              *)
(***************************************************************************)
BSL == "\\"
NL == "\n"
LBR == "{"
RBR == "}"
PCT == "%"
\* what \s matches among the characters the model uses
Whitespace == {" ", NL, "\t"}
Braces == {LBR, RBR}

(***************************************************************************)
(* Regular-expression elements used by the registry's patterns.            *)
(*   lit   one literal character                                           *)
(*   ws    \s*        (greedy; always followed by the literal "{")         *)
(*   grp   ([^{}]+)   (greedy capture; always followed by the literal "}") *)
(*   bol   (?m)^      (start of text or directly after a newline)          *)
(* A greedy element never has to give characters back: what follows it is  *)
(* a literal outside its own character class.                              *)
(***************************************************************************)
Lit(c) == [t |-> "lit", c |-> c]
WsStar == [t |-> "ws", c |-> ""]
Group == [t |-> "grp", c |-> ""]
Bol == [t |-> "bol", c |-> ""]

RECURSIVE Lits(_)
Lits(s) == IF s = <<>> THEN <<>> ELSE <<Lit(Head(s))>> \o Lits(Tail(s))

\* the pattern without \s*: no whitespace allowed before the brace
BracePatternNoGap(name) ==
    <<Lit(BSL)>> \o Lits(name) \o <<Lit(LBR), Group, Lit(RBR)>>

\* the pattern without its leading backslash
BracePatternNoBackslash(name) ==
    Lits(name) \o <<WsStar, Lit(LBR), Group, Lit(RBR)>>

\* r"\\<name>\s*\{([^{}]+)\}"
BracePattern(name) ==
    <<Lit(BSL)>> \o Lits(name) \o <<WsStar, Lit(LBR), Group, Lit(RBR)>>

\* a replacement template: literal characters and the group reference \1
G1 == [t |-> "g1", c |-> ""]

ConversionRule(pattern, replacement, name) ==
    [pattern |-> pattern, replacement |-> replacement, name |-> name]

CONVERSION_RULES == <<
    ConversionRule(BracePattern(<<"g","l","s","p","l">>),
        Lits(<<"#","g","l","s","p","l","(","\"">>) \o <<G1>> \o Lits(<<"\"",")">>),
        "glspl"),
    ConversionRule(BracePattern(<<"g","l","s">>),
        Lits(<<"#","g","l","s","(","\"">>) \o <<G1>> \o Lits(<<"\"",")">>),
        "gls"),
    ConversionRule(BracePattern(<<"t","e","x","t","i","t">>),
        Lits(<<"_">>) \o <<G1>> \o Lits(<<"_">>),
        "textit"),
    ConversionRule(BracePattern(<<"e","m","p","h">>),
        Lits(<<"_">>) \o <<G1>> \o Lits(<<"_">>),
        "emph"),
    ConversionRule(BracePattern(<<"t","e","x","t","b","f">>),
        Lits(<<"*">>) \o <<G1>> \o Lits(<<"*">>),
        "textbf"),
    ConversionRule(BracePattern(<<"c","h","a","p","t","e","r">>),
        Lits(<<"="," ">>) \o <<G1>>,
        "chapter"),
    ConversionRule(BracePattern(<<"s","e","c","t","i","o","n">>),
        Lits(<<"=","="," ">>) \o <<G1>>,
        "section"),
    ConversionRule(BracePattern(<<"s","u","b","s","e","c","t","i","o","n">>),
        Lits(<<"=","=","="," ">>) \o <<G1>>,
        "subsection"),
    ConversionRule(BracePattern(<<"s","u","b","s","u","b","s","e","c","t","i","o","n">>),
        Lits(<<"=","=","=","="," ">>) \o <<G1>>,
        "subsubsection"),
    ConversionRule(BracePattern(<<"l","a","b","e","l">>),
        Lits(<<"<">>) \o <<G1>> \o Lits(<<">">>),
        "label"),
    ConversionRule(BracePattern(<<"r","e","f">>),
        Lits(<<"@">>) \o <<G1>>,
        "ref"),
    ConversionRule(BracePattern(<<"t","e","x","t","c","i","t","e">>),
        Lits(<<"@">>) \o <<G1>>,
        "textcite"),
    ConversionRule(BracePattern(<<"c","i","t","e">>),
        Lits(<<"@">>) \o <<G1>>,
        "cite"),
    ConversionRule(BracePattern(<<"f","o","o","t","n","o","t","e">>),
        Lits(<<"#","f","o","o","t","n","o","t","e","[">>) \o <<G1>> \o Lits(<<"]">>),
        "footnote"),
    ConversionRule(BracePattern(<<"e","n","q","u","o","t","e">>),
        Lits(<<"\"">>) \o <<G1>> \o Lits(<<"\"">>),
        "enquote"),
    ConversionRule(<<Lit(BSL), Lit(BSL)>>,
        Lits(<<BSL>>),
        "double backslash"),
    ConversionRule(<<Bol, Lit(PCT)>>,
        Lits(<<"/","/">>),
        "line comment")
>>

NRules == Len(CONVERSION_RULES)

(***************************************************************************)
(* re.subn                                                                 *)
(***************************************************************************)
\* first position >= p of s whose character is not in class (Len(s)+1 if none)
RECURSIVE SkipWhile(_, _, _)
SkipWhile(s, p, class) ==
    IF p <= Len(s) /\ s[p] \in class THEN SkipWhile(s, p + 1, class) ELSE p

\* ^ without (?m): the start of the text only
AtTextStart(s, p) == p = 1

\* no ^ at all
AtAnyPosition(s, p) == p >= 1

\* (?m)^
AtLineStart(s, p) == p = 1 \/ s[p - 1] = NL

\* [^}] in place of [^{}]
NotClosingBrace(s) == {s[j] : j \in 1..Len(s)} \ {RBR}

\* the characters of s that [^{}] matches
NotBrace(s) == {s[j] : j \in 1..Len(s)} \ Braces

NoMatch == [ok |-> FALSE, end |-> 0, gs |-> 0, ge |-> 0]

\* Match pattern elements e.. of pat against s from position p.  gs/ge are
\* the captured group's first position and the position after its last.
\* end is the position after the match.
RECURSIVE MatchFrom(_, _, _, _, _, _)
MatchFrom(pat, e, s, p, gs, ge) ==
    IF e > Len(pat) THEN [ok |-> TRUE, end |-> p, gs |-> gs, ge |-> ge]
    ELSE LET el == pat[e] IN
      CASE el.t = "lit" ->
             IF p <= Len(s) /\ s[p] = el.c
             THEN MatchFrom(pat, e + 1, s, p + 1, gs, ge) ELSE NoMatch
        [] el.t = "ws" ->
             MatchFrom(pat, e + 1, s, SkipWhile(s, p, Whitespace), gs, ge)
        [] el.t = "grp" ->
             LET q == SkipWhile(s, p, NotBrace(s)) IN
             IF q > p THEN MatchFrom(pat, e + 1, s, q, p, q) ELSE NoMatch
        [] el.t = "bol" ->
             IF AtLineStart(s, p) THEN MatchFrom(pat, e + 1, s, p, gs, ge)
             ELSE NoMatch

Match(pat, s, p) == MatchFrom(pat, 1, s, p, 0, 0)

\* expansion of a replacement template for one match
RECURSIVE Expand(_, _, _)
Expand(repl, s, m) ==
    IF repl = <<>> THEN <<>>
    ELSE (IF Head(repl).t = "g1" THEN SubSeq(s, m.gs, m.ge - 1)
          ELSE <<Head(repl).c>>) \o Expand(Tail(repl), s, m)

\* a substitution that scans its own output again until nothing matches
RECURSIVE SubnOnceFrom(_, _, _, _, _)
SubnOnceFrom(rule, s, p, acc, cnt) ==
    IF p > Len(s) THEN [text |-> acc, n |-> cnt]
    ELSE LET m == Match(rule.pattern, s, p) IN
         IF m.ok
         THEN SubnOnceFrom(rule, s, m.end, acc \o Expand(rule.replacement, s, m), cnt + 1)
         ELSE SubnOnceFrom(rule, s, p + 1, Append(acc, s[p]), cnt)

RECURSIVE SubnFromRescan(_, _, _, _, _)
SubnFromRescan(rule, s, p, acc, cnt) ==
    LET r == SubnOnceFrom(rule, s, p, acc, 0) IN
    IF r.n = 0 THEN [text |-> r.text, n |-> cnt]
    ELSE SubnFromRescan(rule, r.text, 1, <<>>, cnt + r.n)

\* leftmost, non-overlapping substitution of every match, with the count
RECURSIVE SubnFrom(_, _, _, _, _)
SubnFrom(rule, s, p, acc, cnt) ==
    IF p > Len(s) THEN [text |-> acc, n |-> cnt]
    ELSE LET m == Match(rule.pattern, s, p) IN
         IF m.ok
         THEN SubnFrom(rule, s, m.end, acc \o Expand(rule.replacement, s, m), cnt + 1)
         ELSE SubnFrom(rule, s, p + 1, Append(acc, s[p]), cnt)

Subn(rule, s) == SubnFrom(rule, s, 1, <<>>, 0)

(***************************************************************************)
(* Vocabulary of the properties, written from the rule table of the        *)
(* specification and not from the patterns above.                          *)
(***************************************************************************)
HasPrefixAt(s, p, w) == p + Len(w) - 1 <= Len(s) /\ SubSeq(s, p, p + Len(w) - 1) = w

\* the Target column, by rule name
Target(name, X) ==
    CASE name = "glspl" -> <<"#","g","l","s","p","l","(","\"">> \o X \o <<"\"",")">>
      [] name = "gls" -> <<"#","g","l","s","(","\"">> \o X \o <<"\"",")">>
      [] name = "textit" -> <<"_">> \o X \o <<"_">>
      [] name = "emph" -> <<"_">> \o X \o <<"_">>
      [] name = "textbf" -> <<"*">> \o X \o <<"*">>
      [] name = "chapter" -> <<"="," ">> \o X
      [] name = "section" -> <<"=","="," ">> \o X
      [] name = "subsection" -> <<"=","=","="," ">> \o X
      [] name = "subsubsection" -> <<"=","=","=","="," ">> \o X
      [] name = "label" -> <<"<">> \o X \o <<">">>
      [] name = "ref" -> <<"@">> \o X
      [] name = "textcite" -> <<"@">> \o X
      [] name = "cite" -> <<"@">> \o X
      [] name = "footnote" -> <<"#","f","o","o","t","n","o","t","e","[">> \o X \o <<"]">>
      [] name = "enquote" -> <<"\"">> \o X \o <<"\"">>

\* the command name, by rule name
CommandOf(name) ==
    <<BSL>> \o
    CASE name = "glspl" -> <<"g","l","s","p","l">>
      [] name = "gls" -> <<"g","l","s">>
      [] name = "textit" -> <<"t","e","x","t","i","t">>
      [] name = "emph" -> <<"e","m","p","h">>
      [] name = "textbf" -> <<"t","e","x","t","b","f">>
      [] name = "chapter" -> <<"c","h","a","p","t","e","r">>
      [] name = "section" -> <<"s","e","c","t","i","o","n">>
      [] name = "subsection" -> <<"s","u","b","s","e","c","t","i","o","n">>
      [] name = "subsubsection" -> <<"s","u","b","s","u","b","s","e","c","t","i","o","n">>
      [] name = "label" -> <<"l","a","b","e","l">>
      [] name = "ref" -> <<"r","e","f">>
      [] name = "textcite" -> <<"t","e","x","t","c","i","t","e">>
      [] name = "cite" -> <<"c","i","t","e">>
      [] name = "footnote" -> <<"f","o","o","t","n","o","t","e">>
      [] name = "enquote" -> <<"e","n","q","u","o","t","e">>

BraceNames == {"glspl", "gls", "textit", "emph", "textbf", "chapter", "section",
               "subsection", "subsubsection", "label", "ref", "textcite", "cite",
               "footnote", "enquote"}

RuleName(j) == CONVERSION_RULES[j].name
IndexOf(name) == CHOOSE j \in 1..NRules : RuleName(j) = name

Chars(s) == {s[j] : j \in 1..Len(s)}

\* first position >= p holding a character of class (Len(s)+1 if none)
RECURSIVE Find(_, _, _)
Find(s, p, class) == IF p <= Len(s) /\ s[p] \notin class THEN Find(s, p + 1, class) ELSE p

\* A command of rule `name` starts at p: the name, optional whitespace, "{".
\* open is the position of that "{" and stop the position of the first brace
\* character after it.
HeadAt(s, p, name) ==
    LET cmd == CommandOf(name)
        open == Find(s, p + Len(cmd), Chars(s) \ Whitespace)
    IN  p <= Len(s) /\ s[p] = BSL /\ HasPrefixAt(s, p, cmd) /\ open <= Len(s) /\ s[open] = LBR

OpenOf(s, p, name) == Find(s, p + Len(CommandOf(name)), Chars(s) \ Whitespace)
StopOf(s, p, name) == Find(s, OpenOf(s, p, name) + 1, Braces)

\* ... and its argument is a non-empty brace-free text closed by "}"
WellFormedAt(s, p, name) ==
    /\ HeadAt(s, p, name)
    /\ LET stop == StopOf(s, p, name) IN
         stop <= Len(s) /\ s[stop] = RBR /\ stop > OpenOf(s, p, name) + 1

\* ... and its argument contains a brace character
NestedAt(s, p, name) ==
    /\ HeadAt(s, p, name)
    /\ LET stop == StopOf(s, p, name) IN stop <= Len(s) /\ s[stop] = LBR

ArgOf(s, p, name) == SubSeq(s, OpenOf(s, p, name) + 1, StopOf(s, p, name) - 1)
BeforeOf(s, p) == SubSeq(s, 1, p - 1)
AfterOf(s, p, name) == SubSeq(s, StopOf(s, p, name) + 1, Len(s))

PctAtLineStart(s, p) == s[p] = PCT /\ (p = 1 \/ s[p - 1] = NL)
LineStartPcts(s) == Cardinality({p \in 1..Len(s) : PctAtLineStart(s, p)})
HasNewlinePct(s) == \E p \in 2..Len(s) : s[p] = PCT /\ s[p - 1] = NL
HasDoubleBackslash(s) == \E p \in 2..Len(s) : s[p] = BSL /\ s[p - 1] = BSL

\* text with no backslash, brace or percent sign
Plain(s) == Chars(s) \cap {BSL, LBR, RBR, PCT} = {}

\* the rule passes, one after the other, from rule j on
RECURSIVE Passes(_, _)
Passes(s, j) == IF j > NRules THEN s ELSE Passes(Subn(CONVERSION_RULES[j], s).text, j + 1)

(***************************************************************************)
(* Inputs                                                                  *)
(***************************************************************************)
MaxPlain == 4
MaxArg == 2

RECURSIVE Strings(_, _)
Strings(alphabet, len) ==
    IF len = 0 THEN {<<>>}
    ELSE LET shorter == Strings(alphabet, len - 1) IN
         shorter \cup {Append(s, c) : s \in {t \in shorter : Len(t) = len - 1},
                                      c \in alphabet}

PlainChars == {"a", PCT, NL, BSL, LBR}
ArgChars == {"a", PCT, NL, BSL}
Gaps == {<<>>, <<NL>>}
\* text before and after a command
Contexts == {<< <<>>, <<>> >>, << <<"a">>, <<" ">> >>, << <<BSL, BSL>>, <<PCT>> >>}
\* what a nested argument holds between its outer braces: plain text around
\* an inner command or an inner bare brace pair
Inner(q) == IF q = "" THEN <<LBR, "b", RBR>> ELSE CommandOf(q) \o <<LBR, "b", RBR>>

PlainInputs == Strings(PlainChars, MaxPlain)

CmdInputs ==
    {c[1] \o CommandOf(r) \o w \o <<LBR>> \o x \o <<RBR>> \o c[2] :
        r \in BraceNames, w \in Gaps, x \in Strings(ArgChars, MaxArg), c \in Contexts}

NestInputs ==
    {CommandOf(r) \o <<LBR>> \o a \o Inner(q) \o c \o <<RBR>> :
        r \in BraceNames, q \in BraceNames \cup {""}, a \in {<<>>, <<"a">>}, c \in {<<>>, <<"c">>}}

Inputs == PlainInputs \cup CmdInputs \cup NestInputs

(***************************************************************************)
(* transform(text, verbose)                                      main.py   *)
(***************************************************************************)
NoFiles == [p \in {} |-> <<>>]

TransformInit ==
    /\ input \in Inputs
    /\ verbose \in BOOLEAN
    /\ text = input
    /\ new_text = <<>>
    /\ n = 0
    /\ i = 1
    /\ pc = "for"
    /\ out = <<>>
    /\ result = <<>>

\* re.subn applied to the original text instead of the current one
CallSubnOnInput ==
    /\ pc = "for"
    /\ i <= NRules
    /\ LET r == Subn(CONVERSION_RULES[i], input) IN
         /\ new_text' = r.text
         /\ n' = r.n
    /\ pc' = "report"
    /\ UNCHANGED <<input, verbose, text, i, out, result>>

\* line 28: new_text, n = re.subn(rule.pattern, rule.replacement, text)
CallSubn ==
    /\ pc = "for"
    /\ i <= NRules
    /\ LET r == Subn(CONVERSION_RULES[i], text) IN
         /\ new_text' = r.text
         /\ n' = r.n
    /\ pc' = "report"
    /\ UNCHANGED <<input, verbose, text, i, out, result>>

\* "if verbose:" in place of "if n and verbose:"
ReportEveryRule ==
    /\ pc = "report"
    /\ out' = IF verbose THEN Append(out, <<CONVERSION_RULES[i].name, n>>) ELSE out
    /\ text' = new_text
    /\ i' = i + 1
    /\ pc' = "for"
    /\ UNCHANGED <<input, verbose, new_text, n, result>>

\* lines 29-31: the progress line, then text = new_text and the next rule
Report ==
    /\ pc = "report"
    /\ out' = IF n > 0 /\ verbose
              THEN Append(out, <<CONVERSION_RULES[i].name, n>>) ELSE out
    /\ text' = new_text
    /\ i' = i + 1
    /\ pc' = "for"
    /\ UNCHANGED <<input, verbose, new_text, n, result>>

\* line 32: return text
Return ==
    /\ pc = "for"
    /\ i > NRules
    /\ result' = text
    /\ pc' = "done"
    /\ UNCHANGED <<input, verbose, text, new_text, n, i, out>>

Init ==
    /\ TransformInit
    /\ args = [list_rules |-> FALSE]
    /\ fs = NoFiles
    /\ tex_files = <<>>
    /\ pos = 0
    /\ console = <<>>
    /\ exit_code = "none"
    /\ fpc = "idle"

Next ==
    \/ CallSubn /\ UNCHANGED fvars
    \/ Report /\ UNCHANGED fvars
    \/ Return /\ UNCHANGED fvars

Spec == Init /\ [][Next]_vars

(***************************************************************************)
(* Paths (pathlib)                                                         *)
(***************************************************************************)
\* last position of character c in s (0 if none)
RECURSIVE LastIndex(_, _, _)
LastIndex(s, c, p) == IF p = 0 \/ s[p] = c THEN p ELSE LastIndex(s, c, p - 1)

\* Path.name, Path.parent (with its trailing "/"; empty for "."),
\* Path.suffix and Path.stem
PathName(path) == SubSeq(path, LastIndex(path, "/", Len(path)) + 1, Len(path))
PathParent(path) == SubSeq(path, 1, LastIndex(path, "/", Len(path)))
PathSuffix(path) ==
    LET nm == PathName(path)
        dot == LastIndex(nm, ".", Len(nm))
    IN  IF dot > 1 /\ dot < Len(nm) THEN SubSeq(nm, dot, Len(nm)) ELSE <<>>
PathStem(path) ==
    LET nm == PathName(path)
    IN  SubSeq(nm, 1, Len(nm) - Len(PathSuffix(path)))

DotTex == <<".", "t", "e", "x">>
DotTyp == <<".", "t", "y", "p">>
CurDir == <<".">>

(***************************************************************************)
(* The file system and the command line                                    *)
(***************************************************************************)
MaxFiles == 2

\* the .tex files the directory tree may hold, and the text of each
TreePaths == << <<"a">> \o DotTex, <<"s", "/", "b">> \o DotTex, <<"c">> \o DotTex,
                <<"s", "/", "d">> \o DotTex >>
TreeTexts == << CommandOf("section") \o <<LBR, "a", RBR>>,
                <<PCT, "b">>,
                CommandOf("gls") \o <<LBR, "c", RBR, BSL, BSL>>,
                <<"d">> >>
TexUniverse == {TreePaths[j] : j \in 1..MaxFiles}
TextOf(path) == TreeTexts[CHOOSE j \in 1..Len(TreePaths) : TreePaths[j] = path]

\* text: UTF-8 text; binary: bytes that are not UTF-8; locked: not readable
Kinds == {"text", "binary", "locked"}

FileSystems ==
    UNION {{[path \in d |-> [kind |-> kd[path], data |-> TextOf(path)]] : kd \in [d -> Kinds]}
            : d \in SUBSET TexUniverse}

None == <<"None">>
Missing == <<"x">> \o DotTex

Arguments ==
    [path : {None, CurDir, TreePaths[1], Missing},
     inplace : BOOLEAN,
     prefix : {<<>>, <<"c", "_">>},
     suffix : {<<>>, <<"_", "t">>},
     ext : {DotTyp, DotTex},
     recursive : BOOLEAN,
     quiet : BOOLEAN,
     list_rules : BOOLEAN]

Exists(path) == path = CurDir \/ path \in DOMAIN fs
IsFile(path) == path \in DOMAIN fs
IsDir(path) == path = CurDir

\* the orderings of a finite set of paths
Orderings(S) ==
    {sq \in [1..Cardinality(S) -> S] : \A a, b \in 1..Cardinality(S) : sq[a] = sq[b] => a = b}

\* path.glob("**/*.tex") or path.glob("*.tex") from the current directory
Glob(recursive) ==
    {path \in DOMAIN fs :
        /\ PathSuffix(path) = DotTex
        /\ recursive \/ PathParent(path) = <<>>}

(***************************************************************************)
(* transform as process_file calls it: the text and the lines printed      *)
(***************************************************************************)
RECURSIVE TransformFrom(_, _, _, _)
TransformFrom(s, j, vb, lines) ==
    IF j > NRules THEN [text |-> s, lines |-> lines]
    ELSE LET r == Subn(CONVERSION_RULES[j], s) IN
         TransformFrom(r.text, j + 1, vb,
                       IF r.n > 0 /\ vb
                       THEN Append(lines, <<RuleName(j), r.n>>)
                       ELSE lines)

Transform(s, vb) == TransformFrom(s, 1, vb, <<>>)

(***************************************************************************)
(* process_file(file_path, args)                                 main.py   *)
(***************************************************************************)
WriteText(files, path, data) ==
    [q \in DOMAIN files \cup {path} |->
        IF q = path THEN [kind |-> "text", data |-> data] ELSE files[q]]

\* process_file without its try/except: a failure leaves the call
ProcessFileNoTry(file_path, write_fails) ==
    LET started == Append(console, <<"Processing", file_path>>)
        t == Transform(fs[file_path].data, ~args.quiet)
        inplace == args.inplace /\ args.prefix = <<>> /\ args.suffix = <<>>
        target == IF inplace THEN file_path
                  ELSE PathParent(file_path) \o args.prefix
                         \o PathStem(file_path) \o args.suffix \o args.ext
    IN  IF file_path \notin DOMAIN fs \/ fs[file_path].kind # "text"
        THEN [fs |-> fs, console |-> started, raised |-> TRUE]
        ELSE IF write_fails
        THEN [fs |-> fs, console |-> started \o t.lines, raised |-> TRUE]
        ELSE [fs |-> WriteText(fs, target, t.text),
              console |-> Append(started \o t.lines,
                    <<IF inplace THEN "Updated in-place" ELSE "Created", target>>),
              raised |-> FALSE]

\* The outcome of one call: the file system, the console and whether an
\* exception leaves the call.  write_fails: write_text raises OSError.
ProcessFile(file_path, write_fails) ==
    LET started == Append(console, <<"Processing", file_path>>)
        failed(lines, what) ==
            [fs |-> fs, console |-> Append(lines, <<what, file_path>>), raised |-> FALSE]
    IN  IF file_path \notin DOMAIN fs \/ fs[file_path].kind = "locked"
        THEN failed(started, "Error processing")
        ELSE IF fs[file_path].kind = "binary"
        THEN failed(started, "Warning: Could not decode")
        ELSE LET t == Transform(fs[file_path].data, ~args.quiet)
                 printed == started \o t.lines
                 inplace == args.inplace /\ args.prefix = <<>> /\ args.suffix = <<>>
                 output_path == PathParent(file_path) \o args.prefix
                                   \o PathStem(file_path) \o args.suffix \o args.ext
                 target == IF inplace THEN file_path ELSE output_path
             IN  IF write_fails
                 THEN failed(printed, "Error processing")
                 ELSE [fs |-> WriteText(fs, target, t.text),
                       console |-> Append(printed,
                            <<IF inplace THEN "Updated in-place" ELSE "Created", target>>),
                       raised |-> FALSE]

(***************************************************************************)
(* main()                                                        main.py   *)
(***************************************************************************)
FilesInit ==
    /\ args \in Arguments
    /\ fs \in FileSystems
    /\ tex_files = <<>>
    /\ pos = 0
    /\ console = <<>>
    /\ exit_code = "none"
    /\ fpc = "main"

\* lines 122-124: --list-rules
ListRules ==
    /\ fpc = "main"
    /\ args.list_rules
    /\ console' = <<"Available LaTeX to Typst conversion rules:">>
                    \o [j \in 1..NRules |-> <<RuleName(j)>>]
    /\ exit_code' = "0"
    /\ fpc' = "done"
    /\ UNCHANGED <<args, fs, tex_files, pos>>

\* lines 126-127: parser.error exits with status 2
NoPath ==
    /\ fpc = "main"
    /\ ~args.list_rules
    /\ args.path = None
    /\ console' = <<<<"error: Path argument is required unless using --list-rules">>>>
    /\ exit_code' = "2"
    /\ fpc' = "done"
    /\ UNCHANGED <<args, fs, tex_files, pos>>

\* lines 131-133
PathDoesNotExist ==
    /\ fpc = "main"
    /\ ~args.list_rules
    /\ args.path # None
    /\ ~Exists(args.path)
    /\ console' = <<<<"Error: Path does not exist", args.path>>>>
    /\ exit_code' = "1"
    /\ fpc' = "done"
    /\ UNCHANGED <<args, fs, tex_files, pos>>

\* lines 135-138: one file
SingleFile ==
    /\ fpc = "main"
    /\ ~args.list_rules
    /\ args.path # None
    /\ Exists(args.path)
    /\ IsFile(args.path)
    /\ \E write_fails \in BOOLEAN :
         LET r == ProcessFile(args.path, write_fails) IN
         /\ fs' = r.fs
         /\ console' = (IF PathSuffix(args.path) # DotTex
                        THEN <<<<"Warning: no .tex extension", args.path>>>> ELSE <<>>)
                       \o r.console
         /\ fpc' = IF r.raised THEN "crashed" ELSE "done"
         /\ exit_code' = IF r.raised THEN "1" ELSE "0"
    /\ UNCHANGED <<args, tex_files, pos>>

\* lines 139-150: a directory, globbed in whatever order the file system gives
\* (every path of the model that exists is a file or a directory, so the
\* branch of lines 153-155 is not taken)
Directory ==
    /\ fpc = "main"
    /\ ~args.list_rules
    /\ args.path # None
    /\ Exists(args.path)
    /\ ~IsFile(args.path)
    /\ IsDir(args.path)
    /\ \E found \in Orderings(Glob(args.recursive)) :
         /\ tex_files' = found
         /\ IF found = <<>>
            THEN /\ console' = <<<<"No .tex files found", args.recursive>>>>
                 /\ exit_code' = "1"
                 /\ fpc' = "done"
                 /\ pos' = pos
            ELSE /\ console' = <<<<"Found", Len(found)>>>>
                 /\ exit_code' = exit_code
                 /\ fpc' = "loop"
                 /\ pos' = 1
    /\ UNCHANGED <<args, fs>>

\* lines 151-152: one turn of the loop
ProcessNext ==
    /\ fpc = "loop"
    /\ pos <= Len(tex_files)
    /\ \E write_fails \in BOOLEAN :
         LET r == ProcessFile(tex_files[pos], write_fails) IN
         /\ fs' = r.fs
         /\ console' = r.console
         /\ fpc' = IF r.raised THEN "crashed" ELSE "loop"
         /\ exit_code' = IF r.raised THEN "1" ELSE exit_code
    /\ pos' = pos + 1
    /\ UNCHANGED <<args, tex_files>>

\* line 157: return 0
LoopDone ==
    /\ fpc = "loop"
    /\ pos > Len(tex_files)
    /\ exit_code' = "0"
    /\ fpc' = "done"
    /\ UNCHANGED <<args, fs, tex_files, pos, console>>

InitFiles ==
    /\ FilesInit
    /\ input = <<>>
    /\ verbose = FALSE
    /\ text = <<>>
    /\ new_text = <<>>
    /\ n = 0
    /\ i = 0
    /\ pc = "idle"
    /\ out = <<>>
    /\ result = <<>>

NextFiles ==
    \/ ListRules /\ UNCHANGED tvars
    \/ NoPath /\ UNCHANGED tvars
    \/ PathDoesNotExist /\ UNCHANGED tvars
    \/ SingleFile /\ UNCHANGED tvars
    \/ Directory /\ UNCHANGED tvars
    \/ ProcessNext /\ UNCHANGED tvars
    \/ LoopDone /\ UNCHANGED tvars

SpecFiles == InitFiles /\ [][NextFiles]_vars

(***************************************************************************)
(* C1                                                                      *)
(***************************************************************************)
\* one command of rule `name` at p, with a non-empty argument free of braces
\* and backslashes, between plain texts
C1_Case(s, p, name) ==
    /\ WellFormedAt(s, p, name)
    /\ BSL \notin Chars(ArgOf(s, p, name))
    /\ Plain(BeforeOf(s, p))
    /\ Plain(AfterOf(s, p, name))

C1_Expected(s, p, name) ==
    BeforeOf(s, p) \o Target(name, ArgOf(s, p, name)) \o AfterOf(s, p, name)

\* C1 as stated: for every brace rule and every non-empty argument X without
\* braces and backslashes, the command (with optional whitespace before its
\* brace) becomes the rule's target with X substituted, the text around it
\* unchanged.
C1_AsStated ==
    pc = "done" =>
        \A p \in 1..Len(input), name \in BraceNames :
            C1_Case(input, p, name) => result = C1_Expected(input, p, name)

\* C1, amended: the same, for every such X that holds no "%" directly after a
\* newline (the line comment rule rewrites that "%" too).
C1_BraceRuleTargets ==
    pc = "done" =>
        \A p \in 1..Len(input), name \in BraceNames :
            (C1_Case(input, p, name) /\ ~HasNewlinePct(ArgOf(input, p, name)))
                => result = C1_Expected(input, p, name)

C1_Witness ==
    /\ pc = "done"
    /\ \E p \in 2..Len(input) :
         /\ C1_Case(input, p, "section")
         /\ OpenOf(input, p, "section") > p + Len(CommandOf("section"))
         /\ PCT \in Chars(ArgOf(input, p, "section"))
         /\ ~HasNewlinePct(ArgOf(input, p, "section"))
         /\ result = C1_Expected(input, p, "section")
         /\ result # input

(***************************************************************************)
(* C2                                                                      *)
(***************************************************************************)
\* passes a..b, one after the other
RECURSIVE PassesBetween(_, _, _)
PassesBetween(s, a, b) ==
    IF a > b THEN s ELSE PassesBetween(Subn(CONVERSION_RULES[a], s).text, a + 1, b)

\* s is "\outer{" plain text, one well-formed command of rule inner at q,
\* plain text, "}"
NestCase(s, outer, inner, q) ==
    /\ NestedAt(s, 1, outer)
    /\ OpenOf(s, 1, outer) < q
    /\ WellFormedAt(s, q, inner)
    /\ Plain(SubSeq(s, OpenOf(s, 1, outer) + 1, q - 1))
    /\ StopOf(s, q, inner) < Len(s)
    /\ s[Len(s)] = RBR
    /\ Plain(SubSeq(s, StopOf(s, q, inner) + 1, Len(s) - 1))

\* the argument of the outer command once the inner command is converted
NestArg(s, outer, inner, q) ==
    SubSeq(s, OpenOf(s, 1, outer) + 1, q - 1)
        \o Target(inner, ArgOf(s, q, inner))
        \o SubSeq(s, StopOf(s, q, inner) + 1, Len(s) - 1)

\* a double backslash at p, directly followed by a command that rule `name` matches
DoubleThenCommand(s, p, name) ==
    /\ p + 2 <= Len(s)
    /\ s[p] = BSL
    /\ s[p + 1] = BSL
    /\ WellFormedAt(s, p + 2, name)

\* C2: every rule makes exactly one pass, in registry order, over the whole
\* text the previous pass produced, so the result is the composition of the
\* passes; what an earlier rule produced is matched by a later rule, and what
\* a rule produced is not scanned again by that rule or an earlier one; an
\* input with a double backslash directly followed by a command of another
\* rule has both converted.
C2_ChainedPasses ==
    /\ pc = "done" => result = PassesBetween(input, 1, NRules)
    /\ pc = "done" =>
         \A outer \in BraceNames :
            NestedAt(input, 1, outer) =>
                \A q \in 1..Len(input), inner \in BraceNames :
                    NestCase(input, outer, inner, q) =>
                        result = IF IndexOf(inner) < IndexOf(outer)
                                 THEN Target(outer, NestArg(input, outer, inner, q))
                                 ELSE SubSeq(input, 1, OpenOf(input, 1, outer))
                                        \o NestArg(input, outer, inner, q) \o <<RBR>>
    /\ (pc = "report" /\ n = 0) =>
         \A p \in 1..Len(input) :
            (input[p] = BSL /\ HasDoubleBackslash(input)) =>
                \A name \in BraceNames :
                    DoubleThenCommand(input, p, name) =>
                        RuleName(i) \notin {name, "double backslash"}

C2_Witness ==
    /\ pc = "done"
    /\ \E p \in 1..Len(input) :
         /\ DoubleThenCommand(input, p, "section")
         /\ result = <<BSL>> \o Target("section", ArgOf(input, p + 2, "section"))
                        \o AfterOf(input, p + 2, "section")

(***************************************************************************)
(* C3                                                                      *)
(***************************************************************************)
\* s is exactly "\name{X}" with X non-empty and free of braces
C3_Case(s, name) ==
    /\ WellFormedAt(s, 1, name)
    /\ OpenOf(s, 1, name) = 1 + Len(CommandOf(name))
    /\ StopOf(s, 1, name) = Len(s)

PrefixPairs == {<<"textcite", "cite">>, <<"glspl", "gls">>}

C3_Counts(long, short) ==
    /\ IndexOf(long) < IndexOf(short)
    /\ (pc = "report" /\ RuleName(i) = long) => n = 1
    /\ (pc = "report" /\ RuleName(i) = short) => n = 0

\* C3 as stated: for every non-empty brace-free X, \textcite{X} and \glspl{X}
\* become the longer rule's target in full, by one replacement of the longer
\* rule and none of the shorter, and the registry lists the longer first.
C3_AsStated ==
    \A pr \in PrefixPairs :
        C3_Case(input, pr[1]) =>
            /\ C3_Counts(pr[1], pr[2])
            /\ pc = "done" => result = Target(pr[1], ArgOf(input, 1, pr[1]))

\* C3, amended: the same, the output being the target in full for every X
\* that holds neither two consecutive backslashes nor a "%" directly after a
\* newline (the two last rules rewrite those inside the argument).
C3_PrefixOverlap ==
    \A pr \in PrefixPairs :
        C3_Case(input, pr[1]) =>
            /\ C3_Counts(pr[1], pr[2])
            /\ (/\ pc = "done"
                /\ ~HasDoubleBackslash(ArgOf(input, 1, pr[1]))
                /\ ~HasNewlinePct(ArgOf(input, 1, pr[1])))
                    => result = Target(pr[1], ArgOf(input, 1, pr[1]))

C3_Witness ==
    /\ pc = "done"
    /\ C3_Case(input, "textcite")
    /\ BSL \in Chars(ArgOf(input, 1, "textcite"))
    /\ result = <<"@">> \o ArgOf(input, 1, "textcite")

(***************************************************************************)
(* C4                                                                      *)
(***************************************************************************)
WellFormedCount(s, name) == Cardinality({p \in 1..Len(s) : WellFormedAt(s, p, name)})
NestedCount(s, name) == Cardinality({p \in 1..Len(s) : NestedAt(s, p, name)})
HeadCount(s, name) == Cardinality({p \in 1..Len(s) : HeadAt(s, p, name)})
CountOf(s, c) == Cardinality({p \in 1..Len(s) : s[p] = c})

\* C4 as stated: a command whose argument contains a brace is left
\* unconverted in the output of transform.
C4_AsStated ==
    pc = "done" =>
        \A name \in BraceNames :
            NestedAt(input, 1, name) => HasPrefixAt(result, 1, CommandOf(name))

\* C4, amended: a command whose argument contains a brace when its rule's
\* pass runs is not matched by that pass (the pass replaces exactly the
\* commands with a non-empty brace-free argument and leaves the others in
\* place), and \textbf{a{b}c} and its like are returned unchanged; an
\* argument whose braces an earlier rule has converted away is matched.
C4_NestingLimit ==
    /\ (pc = "report" /\ RuleName(i) \in BraceNames) =>
          /\ n = WellFormedCount(text, RuleName(i))
          /\ HeadCount(new_text, RuleName(i)) >= HeadCount(text, RuleName(i)) - n
          /\ \A p \in 1..Len(text) :
                (NestedAt(text, p, RuleName(i)) /\ CountOf(text, BSL) = 1)
                    => new_text = text
    /\ pc = "done" =>
          \A name \in BraceNames :
             (/\ NestedAt(input, 1, name)
              /\ CountOf(input, BSL) = 1
              /\ LineStartPcts(input) = 0) => result = input

C4_Witness ==
    /\ pc = "done"
    /\ NestedAt(input, 1, "textbf")
    /\ CountOf(input, BSL) = 1
    /\ input = CommandOf("textbf") \o <<LBR, "a", LBR, "b", RBR, "c", RBR>>
    /\ result = input

(***************************************************************************)
(* C9 (and the match counts C5 and C6 use)                                 *)
(***************************************************************************)
\* length of the run of backslashes that starts at p
RunAt(s, p) == Find(s, p, Chars(s) \ {BSL}) - p

Backslashes(k) == [j \in 1..k |-> BSL]

\* every maximal run of k backslashes replaced by a run of ceil(k/2)
RECURSIVE HalveRunsFrom(_, _)
HalveRunsFrom(s, p) ==
    IF p > Len(s) THEN <<>>
    ELSE IF s[p] = BSL
         THEN Backslashes((RunAt(s, p) + 1) \div 2) \o HalveRunsFrom(s, p + RunAt(s, p))
         ELSE <<s[p]>> \o HalveRunsFrom(s, p + 1)

HalveRuns(s) == HalveRunsFrom(s, 1)

\* the pairs of backslashes, paired left to right in every maximal run
RECURSIVE PairsFrom(_, _)
PairsFrom(s, p) ==
    IF p > Len(s) THEN 0
    ELSE IF s[p] = BSL
         THEN RunAt(s, p) \div 2 + PairsFrom(s, p + RunAt(s, p))
         ELSE PairsFrom(s, p + 1)

\* C9: the double backslash pass pairs backslashes left to right and replaces
\* each pair once: a maximal run of k backslashes becomes ceil(k/2), counted
\* as floor(k/2) replacements, and the pass's output is not scanned again.
C9_DoubleBackslashPass ==
    (pc = "report" /\ RuleName(i) = "double backslash") =>
        /\ new_text = HalveRuns(text)
        /\ n = PairsFrom(text, 1)

C9_Witness ==
    /\ pc = "report"
    /\ RuleName(i) = "double backslash"
    /\ text = <<BSL, BSL, BSL, BSL>>
    /\ new_text = <<BSL, BSL>>
    /\ n = 2

(***************************************************************************)
(* C5                                                                      *)
(***************************************************************************)
\* the non-overlapping matches of a rule in s, counted from the rule table
NumMatches(name, s) ==
    CASE name \in BraceNames -> WellFormedCount(s, name)
      [] name = "double backslash" -> PairsFrom(s, 1)
      [] name = "line comment" -> LineStartPcts(s)

\* the progress lines of rules j.. on s, after the lines `lines`, and the text
\* those passes leave
RECURSIVE ExpectedRun(_, _, _)
ExpectedRun(s, j, lines) ==
    IF j > NRules THEN [text |-> s, lines |-> lines]
    ELSE ExpectedRun(Subn(CONVERSION_RULES[j], s).text, j + 1,
                     IF NumMatches(RuleName(j), s) > 0
                     THEN Append(lines, <<RuleName(j), NumMatches(RuleName(j), s)>>)
                     ELSE lines)

\* C5: with verbose, one line per rule whose pass replaced something, in
\* registry order, with the number of matches in the text that pass scanned;
\* no line for a rule without a match; without verbose no line at all; the
\* returned text does not depend on verbose.
C5_Reporting ==
    /\ pc = "report" => n = NumMatches(RuleName(i), text)
    /\ ~verbose => out = <<>>
    /\ pc = "done" =>
          LET run == ExpectedRun(input, 1, <<>>) IN
          /\ verbose => out = run.lines
          /\ \A j \in 1..Len(out) : out[j][2] > 0
          /\ result = run.text

C5_Witness ==
    /\ pc = "done"
    /\ verbose
    /\ Len(out) = 2
    /\ out[1] = <<"gls", 1>>
    /\ out[2] = <<"textbf", 1>>

(***************************************************************************)
(* C6                                                                      *)
(***************************************************************************)
NoRuleMatches(s) ==
    /\ ~HasDoubleBackslash(s)
    /\ LineStartPcts(s) = 0
    /\ \A p \in 1..Len(s) : s[p] = BSL => \A name \in BraceNames : ~WellFormedAt(s, p, name)

\* C6: a text in which no rule matches is returned unchanged, with nothing
\* reported, and so is the result of transforming it again.
C6_NoSpuriousMatches ==
    /\ pc = "report" =>
          (NoRuleMatches(input) => (n = 0 /\ text = input /\ new_text = input /\ out = <<>>))
    /\ pc = "done" =>
          (NoRuleMatches(input) =>
              /\ result = input
              /\ out = <<>>
              /\ PassesBetween(result, 1, NRules) = input)

C6_Witness ==
    /\ pc = "done"
    /\ verbose
    /\ NoRuleMatches(input)
    /\ \E p \in 2..Len(input) : input[p] = PCT
    /\ BSL \in Chars(input)
    /\ result = input

C6_WitnessEmpty ==
    /\ pc = "done"
    /\ input = <<>>
    /\ result = <<>>
    /\ out = <<>>

(***************************************************************************)
(* C10                                                                     *)
(***************************************************************************)
\* every "%" at the start of a line replaced by "//"
RECURSIVE CommentLinesFrom(_, _)
CommentLinesFrom(s, p) ==
    IF p > Len(s) THEN <<>>
    ELSE (IF PctAtLineStart(s, p) THEN <<"/", "/">> ELSE <<s[p]>>)
         \o CommentLinesFrom(s, p + 1)

SlashesAtLineStart(s) ==
    Cardinality({p \in 1..(Len(s) - 1) :
        s[p] = "/" /\ s[p + 1] = "/" /\ (p = 1 \/ s[p - 1] = NL)})

\* C10 as stated, its last part: no rule before the line comment rule moves
\* a "%" onto or off the start of a line, so that a "%" that does not start a
\* line of the input is never altered.
C10_AsStated ==
    /\ (pc = "report" /\ RuleName(i) # "line comment") =>
          LineStartPcts(new_text) = LineStartPcts(text)
    /\ (pc = "report" /\ RuleName(i) = "line comment") => n = LineStartPcts(input)

\* C10, amended: a "%" that starts a line of the input still starts a line
\* when the line comment pass runs; that pass replaces by "//" exactly the
\* "%" that start a line of the text it scans and alters nothing else, so
\* no line of the output starts with "%"; an earlier rule whose target ends
\* with its argument can bring a "%" to the start of a line, and that "%" is
\* replaced too.
C10_LineComments ==
    /\ (pc = "report" /\ RuleName(i) # "line comment") =>
          LineStartPcts(new_text) >= LineStartPcts(text)
    /\ (pc = "report" /\ RuleName(i) = "line comment") =>
          /\ new_text = CommentLinesFrom(text, 1)
          /\ n = LineStartPcts(text)
          /\ n >= LineStartPcts(input)
    /\ pc = "done" =>
          /\ LineStartPcts(result) = 0
          /\ SlashesAtLineStart(result) >= LineStartPcts(input)

C10_Witness ==
    /\ pc = "done"
    /\ input = <<PCT, PCT, NL, PCT>>
    /\ result = <<"/", "/", PCT, NL, "/", "/">>

(***************************************************************************)
(* C7                                                                      *)
(***************************************************************************)
Lines(what) == {j \in 1..Len(console) : console[j][1] = what}

\* C7: without --prefix and --suffix, with or without --inplace, the
\* transformed text is written to the input file's own path and no other
\* file appears; a separate output file appears only with a prefix or suffix.
C7_InPlaceDefault ==
    (args.prefix = <<>> /\ args.suffix = <<>>) =>
        /\ DOMAIN fs \subseteq TexUniverse
        /\ \A j \in Lines("Created") \cup Lines("Updated in-place") :
              \E q \in 1..(j - 1) :
                 /\ console[q][1] = "Processing"
                 /\ \A m \in (q + 1)..(j - 1) : console[m][1] # "Processing"
                 /\ console[j][2] = console[q][2]
                 /\ fs[console[q][2]].data = Transform(TextOf(console[q][2]), FALSE).text

(***************************************************************************)
(* C8                                                                      *)
(***************************************************************************)
\* the paths process_file was called with, in the order of the calls
RECURSIVE Processed(_)
Processed(lines) ==
    IF lines = <<>> THEN <<>>
    ELSE (IF Head(lines)[1] = "Processing" THEN <<Head(lines)[2]>> ELSE <<>>)
         \o Processed(Tail(lines))

\* the line that ends the call for the file processed at console line j
Outcome(j) ==
    LET later == {m \in (j + 1)..Len(console) :
                    console[m][1] \in {"Created", "Updated in-place",
                                       "Warning: Could not decode", "Error processing"}}
    IN  IF later = {} THEN "none"
        ELSE console[CHOOSE m \in later : \A m2 \in later : m <= m2][1]

\* C8: in directory mode process_file is called once for every file found,
\* in the order found; a file that cannot be decoded, read or written is
\* reported inside its own call, every later file is still processed and the
\* run ends normally.
C8_FailureIsolation ==
    /\ fpc # "crashed"
    /\ fpc = "loop" => Processed(console) = SubSeq(tex_files, 1, pos - 1)
    /\ (fpc = "done" /\ tex_files # <<>>) =>
          /\ Processed(console) = tex_files
          /\ exit_code = "0"
    /\ tex_files # <<>> =>
          \A j \in Lines("Processing") :
             LET kind == fs[console[j][2]].kind IN
             /\ kind = "binary" => Outcome(j) = "Warning: Could not decode"
             /\ kind = "locked" => Outcome(j) = "Error processing"
             /\ kind = "text" =>
                   Outcome(j) \in {"Created", "Updated in-place", "Error processing"}

C8_Witness ==
    /\ fpc = "done"
    /\ Len(tex_files) = 2
    /\ fs[tex_files[1]].kind = "binary"
    /\ \E j \in Lines("Warning: Could not decode") : console[j][2] = tex_files[1]
    /\ \E j \in Lines("Created") : console[j - 1] = <<"Processing", tex_files[2]>>

====
